---- MODULE Spec2Model ----
(***************************************************************************)
(* Template tags of wagtail/admin/templatetags/wagtailadmin_tags.py,       *)
(* modelled as operations of one render pass.                              *)
(*                                                                         *)
(* A Python str is a sequence of one-character strings.  A page is the     *)
(* record of the attributes the tags read ([path]), a collection likewise  *)
(* ([pk, name], [pk, depth, name] or [path]).  A treebeard path is a       *)
(* sequence of steps, so that str.startswith on paths is the prefix        *)
(* relation on step sequences.                                             *)
(***************************************************************************)
EXTENDS Integers, Sequences, FiniteSets, TLC

VARIABLES
    request,    \* the request of the render pass: [user, GET]
    store,      \* the data store the ORM queries read
    registry,   \* wagtail.core.hooks: hook name -> callbacks in registration order
    context,    \* the render context: key -> value
    call,       \* the tag invoked last, with its arguments
    ret,        \* what that tag returned (or the exception it raised)
    built,      \* per context key, how often the cached lookup was constructed
    invoked     \* the hook callbacks called by the last tag, with their arguments

vars == <<request, store, registry, context, call, ret, built, invoked>>

\* A variable a specification does not use.
Unused == "unused"
\* No tag was invoked yet / the tag has not returned yet.
Pending == [tag |-> "pending"]

---------------------------------------------------------------------------
(* Bounds *)

MaxPathLen == 2         \* longest page path (in steps) of the permission store
MaxRestrictions == 2    \* page view restrictions in the data store
MaxTrimLen == 4         \* longest generated string given to ellipsistrim
MaxCollections == 2     \* longest generated collection list given to collection_chooser
MaxTreeDepth == 3       \* deepest collection given to collection_chooser
MaxSelected == 2        \* longest string or list given as selected_collection
MaxHooks == 2           \* callbacks registered under one hook name
MaxValues == 2          \* values one key of the query string carries
MaxKwargs == 2          \* keyword arguments given to querystring
MaxPage == 2            \* highest page number given to pagination_querystring

Steps == {"1", "2"}
Users == {"alice", "bob"}
CollectionPks == {1, 2}
CollectionNames == {"docs", "img"}

---------------------------------------------------------------------------
(* Helpers: Python built-ins *)

\* str.startswith(prefix)
startswith(s, prefix) ==
    /\ Len(prefix) <= Len(s)
    /\ SubSeq(s, 1, Len(prefix)) = prefix

\* All sequences over S of length lo..hi.
SeqsOf(S, lo, hi) == UNION {[1..n -> S] : n \in lo..hi}

Min(a, b) == IF a <= b THEN a ELSE b
Max(a, b) == IF a >= b THEN a ELSE b

\* s[:k], k of either sign (a negative k counts from the end)
SliceTo(s, k) ==
    IF k >= 0 THEN SubSeq(s, 1, Min(k, Len(s)))
    ELSE SubSeq(s, 1, Max(Len(s) + k, 0))

\* s[i], i >= 0 counted from 0
At(s, i) == s[i + 1]

\* s.rfind(c): the 0-based index of the last c in s, -1 when there is none
rfind(s, c) ==
    LET hits == {i \in 1..Len(s) : s[i] = c}
    IN  IF hits = {} THEN -1 ELSE (CHOOSE i \in hits : \A j \in hits : j <= i) - 1

\* dict[key] = value
DictSet(d, key, value) ==
    [k \in DOMAIN d \cup {key} |-> IF k = key THEN value ELSE d[k]]

---------------------------------------------------------------------------
(* The data store *)

Paths == SeqsOf(Steps, 1, MaxPathLen)
Pages == {[path |-> p] : p \in Paths}

\* PageViewRestriction.objects.select_related('page').values_list('page__path', flat=True)
PageViewRestrictionPaths(st) == st.page_restrictions

\* CollectionViewRestriction.objects.select_related('collection')
\*     .values_list('collection__name', flat=True)
CollectionViewRestrictionNames(st) ==
    {st.collection_names[pk] : pk \in st.collection_restrictions}

\* UserPagePermissionsProxy(user) and proxy.for_page(page)
UserPagePermissionsProxy(user) == [kind |-> "UserPagePermissionsProxy", user |-> user]
for_page(proxy, page) == [kind |-> "PagePermissionTester", user |-> proxy.user, page |-> page]

\* UserCollectionPermissionsProxy(user) and proxy.for_collection(collection)
UserCollectionPermissionsProxy(user) ==
    [kind |-> "UserCollectionPermissionsProxy", user |-> user]
for_collection(proxy, collection) ==
    [kind |-> "CollectionPermissionTester", user |-> proxy.user, collection |-> collection]

StoredCollections(st) ==
    {[pk |-> pk, name |-> st.collection_names[pk]] : pk \in DOMAIN st.collection_names}

---------------------------------------------------------------------------
(* page_permissions, collection_permissions, test_*_is_public *)

CacheKeys == {"user_page_permissions", "user_collection_permissions",
              "all_collection_view_restrictions", "all_page_view_restriction_paths"}

\* Mutant: the "not in context" test always succeeds.
CacheMissingAlways(ctx, key) == TRUE
\* "if key not in context: context[key] = value"; the context afterwards.
CacheMissing(ctx, key) == key \notin DOMAIN ctx
SetDefault(ctx, key, value) == IF CacheMissing(ctx, key) THEN DictSet(ctx, key, value) ELSE ctx
\* The construction counter afterwards: value is constructed in the if-branch only.
Count(ctx, key, b) == IF CacheMissing(ctx, key) THEN [b EXCEPT ![key] = @ + 1] ELSE b

\* Mutant: only a restriction on the page itself counts.
PageIsPrivateExact(restricted_paths, page) == page.path \in restricted_paths
\* is_private of test_page_is_public: any(page.path.startswith(r) for r in cached paths)
PageIsPrivate(restricted_paths, page) ==
    \E restricted_path \in restricted_paths : startswith(page.path, restricted_path)

\* is_private of test_collection_is_public: collection.name in cached names
CollectionIsPrivate(restricted_names, collection) ==
    collection.name \in restricted_names

page_permissions(page) ==
    LET key == "user_page_permissions"
        ctx == SetDefault(context, key, UserPagePermissionsProxy(request.user))
    IN  /\ context' = ctx
        /\ built' = Count(context, key, built)
        /\ call' = [tag |-> "page_permissions", page |-> page,
                    hit |-> ~CacheMissing(context, key)]
        /\ ret' = for_page(ctx[key], page)
        /\ UNCHANGED <<request, store, registry, invoked>>

collection_permissions(collection) ==
    LET key == "user_collection_permissions"
        ctx == SetDefault(context, key, UserCollectionPermissionsProxy(request.user))
    IN  /\ context' = ctx
        /\ built' = Count(context, key, built)
        /\ call' = [tag |-> "collection_permissions", collection |-> collection,
                    hit |-> ~CacheMissing(context, key)]
        /\ ret' = for_collection(ctx[key], collection)
        /\ UNCHANGED <<request, store, registry, invoked>>

test_collection_is_public(collection) ==
    LET key == "all_collection_view_restrictions"
        ctx == SetDefault(context, key, CollectionViewRestrictionNames(store))
    IN  /\ context' = ctx
        /\ built' = Count(context, key, built)
        /\ call' = [tag |-> "test_collection_is_public", collection |-> collection,
                    hit |-> ~CacheMissing(context, key)]
        /\ ret' = [value |-> ~CollectionIsPrivate(ctx[key], collection)]
        /\ UNCHANGED <<request, store, registry, invoked>>

test_page_is_public(page) ==
    LET key == "all_page_view_restriction_paths"
        ctx == SetDefault(context, key, PageViewRestrictionPaths(store))
    IN  /\ context' = ctx
        /\ built' = Count(context, key, built)
        /\ call' = [tag |-> "test_page_is_public", page |-> page,
                    hit |-> ~CacheMissing(context, key)]
        /\ ret' = [value |-> ~PageIsPrivate(ctx[key], page)]
        /\ UNCHANGED <<request, store, registry, invoked>>

PagePermissions == \E page \in Pages : page_permissions(page)
CollectionPermissions == \E c \in StoredCollections(store) : collection_permissions(c)
TestCollectionIsPublic == \E c \in StoredCollections(store) : test_collection_is_public(c)
TestPageIsPublic == \E page \in Pages : test_page_is_public(page)

\* The stores of the permission tags.  The page tags read the page restrictions
\* only and the collection tags the collections only, so the stores vary one side
\* with the other side held at no restriction.
PageStores ==
    {[page_restrictions |-> pr,
      collection_names |-> [pk \in CollectionPks |-> "docs"],
      collection_restrictions |-> {}] :
        pr \in {s \in SUBSET Paths : Cardinality(s) <= MaxRestrictions}}
CollectionStores ==
    {[page_restrictions |-> {}, collection_names |-> cn, collection_restrictions |-> cr] :
        cn \in [CollectionPks -> CollectionNames],
        cr \in SUBSET CollectionPks}
PermStores == PageStores \cup CollectionStores

InitPerms ==
    /\ request \in {[user |-> u] : u \in Users}
    /\ store \in PermStores
    /\ registry = Unused
    /\ context = <<>>
    /\ call = Pending
    /\ ret = Pending
    /\ built = [k \in CacheKeys |-> 0]
    /\ invoked = <<>>

NextPerms ==
    \/ PagePermissions
    \/ CollectionPermissions
    \/ TestCollectionIsPublic
    \/ TestPageIsPublic

SpecPerms == InitPerms /\ [][NextPerms]_vars

\* The context key a permission tag caches under.
KeyOfTag(tag) ==
    CASE tag = "page_permissions" -> "user_page_permissions"
      [] tag = "collection_permissions" -> "user_collection_permissions"
      [] tag = "test_collection_is_public" -> "all_collection_view_restrictions"
      [] tag = "test_page_is_public" -> "all_page_view_restriction_paths"

\* p is a prefix of s (or equal to it), position by position.
IsPrefixOf(p, s) == Len(p) <= Len(s) /\ \A i \in 1..Len(p) : p[i] = s[i]

\* C1: in one render pass each cached lookup (the two permission proxies, the two
\* restriction sets) is constructed at most once, however often and in whatever
\* order the four tags are called: the first call of a tag stores it under its
\* key, and a later call finds the key and answers from the stored value.
CachedLookupBuiltAtMostOnce ==
    /\ \A k \in CacheKeys :
            /\ built[k] <= 1
            /\ (k \in DOMAIN context) <=> (built[k] = 1)
    /\ DOMAIN context \subseteq CacheKeys
    /\ call.tag # "pending" =>
            /\ KeyOfTag(call.tag) \in DOMAIN context
            /\ call.tag = "page_permissions" =>
                    ret.user = context["user_page_permissions"].user
            /\ call.tag = "collection_permissions" =>
                    ret.user = context["user_collection_permissions"].user

\* A later call of page_permissions, answered from the proxy built by the first.
CachedLookupReused ==
    /\ call.tag = "page_permissions"
    /\ call.hit
    /\ built["user_page_permissions"] = 1
    /\ built["all_page_view_restriction_paths"] = 1
    /\ built["user_collection_permissions"] = 1
    /\ built["all_collection_view_restrictions"] = 1

\* C2: test_page_is_public is False exactly when some cached restricted path is a
\* prefix of (or equal to) page.path: a restriction on the page or on an ancestor
\* makes it non-public, one on a descendant alone leaves it public.
PagePublicIffNoRestrictedPrefix ==
    call.tag = "test_page_is_public" =>
        LET cached == context["all_page_view_restriction_paths"]
            path == call.page.path
        IN  /\ (ret.value = FALSE) <=> (\E r \in cached : IsPrefixOf(r, path))
            /\ (\E r \in store.page_restrictions : IsPrefixOf(r, path)) => ret.value = FALSE
            /\ (/\ \E r \in cached : IsPrefixOf(path, r) /\ r # path
                /\ ~\E r \in cached : IsPrefixOf(r, path)) => ret.value = TRUE

\* A page reported non-public for a restriction on an ancestor, not on itself.
PageHiddenByAncestor ==
    /\ call.tag = "test_page_is_public"
    /\ ret.value = FALSE
    /\ call.page.path \notin context["all_page_view_restriction_paths"]

\* C3: test_collection_is_public is True if and only if no collection view
\* restriction is in place on this collection.
CollectionPublicIffUnrestricted ==
    call.tag = "test_collection_is_public" =>
        (ret.value = TRUE <=> call.collection.pk \notin store.collection_restrictions)

---------------------------------------------------------------------------
(* ellipsistrim *)

Ellipsis == <<".", ".", ".">>

ellipsistrim(value, max_length) ==
    IF Len(value) > max_length
    THEN LET truncd_val == SliceTo(value, max_length)
             trimmed ==
                 IF ~(Len(value) = max_length + 1) /\ At(value, max_length + 1) # " "
                 THEN SliceTo(truncd_val, rfind(truncd_val, " "))
                 ELSE truncd_val
         IN  trimmed \o Ellipsis
    ELSE value

TheQuickBrownFox ==
    <<"T", "h", "e", " ", "q", "u", "i", "c", "k", " ",
      "b", "r", "o", "w", "n", " ", "f", "o", "x">>
TheQuickEllipsis == <<"T", "h", "e", " ", "q", "u", "i", "c", "k", ".", ".", ".">>

TrimChars == {"a", " "}
TrimValues == SeqsOf(TrimChars, 0, MaxTrimLen) \cup {TheQuickBrownFox}
TrimLengths == 0..MaxTrimLen \cup {9}

Ellipsistrim ==
    /\ call.tag = "ellipsistrim"
    /\ ret = Pending
    /\ ret' = [value |-> ellipsistrim(call.value, call.max_length)]
    /\ UNCHANGED <<request, store, registry, context, call, built, invoked>>

InitTrim ==
    /\ call \in {[tag |-> "ellipsistrim", value |-> v, max_length |-> n] :
                    v \in TrimValues, n \in TrimLengths}
    /\ ret = Pending
    /\ request = Unused
    /\ store = Unused
    /\ registry = Unused
    /\ context = <<>>
    /\ built = Unused
    /\ invoked = <<>>

NextTrim == Ellipsistrim

SpecTrim == InitTrim /\ [][NextTrim]_vars

\* The cut after max_length characters falls inside a word: the last character
\* kept and the first one dropped are both no space.
CutInsideWord(value, max_length) ==
    /\ max_length >= 1
    /\ value[max_length] # " "
    /\ value[max_length + 1] # " "

\* C5: ellipsistrim returns value unchanged when len(value) <= max_length, and
\* otherwise the first max_length characters and "...", the kept characters cut
\* back to their last space when the cut falls inside a word; "The quick brown
\* fox" cut to 9 is "The quick...".
EllipsistrimAsClaimed ==
    (call.tag = "ellipsistrim" /\ ret # Pending) =>
        LET value == call.value
            n == call.max_length
            kept == SubSeq(value, 1, n)
            spaces == {i \in 1..n : value[i] = " "}
            last == CHOOSE i \in spaces : \A j \in spaces : j <= i
        IN  /\ Len(value) <= n => ret.value = value
            /\ (Len(value) > n /\ ~CutInsideWord(value, n)) =>
                    ret.value = kept \o Ellipsis
            /\ (Len(value) > n /\ CutInsideWord(value, n) /\ spaces # {}) =>
                    ret.value = SubSeq(value, 1, last - 1) \o Ellipsis
            /\ (value = TheQuickBrownFox /\ n = 9) => ret.value = TheQuickEllipsis

\* The example of C5 alone.
EllipsistrimFoxExample ==
    (call.tag = "ellipsistrim" /\ ret # Pending
        /\ call.value = TheQuickBrownFox /\ call.max_length = 9) =>
        ret.value = TheQuickEllipsis

---------------------------------------------------------------------------
(* collection_chooser *)

\* Python values of the shapes selected_collection arrives in.  Each type keeps
\* its payload in a field of its own.
PyNone == [t |-> "NoneType"]
PyInt(i) == [t |-> "int", i |-> i]
PyStr(s) == [t |-> "str", s |-> s]
PyList(l) == [t |-> "list", l |-> l]

Digits == {"0", "1", "5"}
DigitValue(d) == CASE d = "0" -> 0 [] d = "1" -> 1 [] d = "5" -> 5

\* The value of a non-empty string of digits.
RECURSIVE DecimalValue(_)
DecimalValue(ds) ==
    IF ds = <<>> THEN 0
    ELSE 10 * DecimalValue(SubSeq(ds, 1, Len(ds) - 1)) + DigitValue(ds[Len(ds)])

\* s.strip() for the whitespace character " "
RECURSIVE strip(_)
strip(s) ==
    IF s # <<>> /\ Head(s) = " " THEN strip(Tail(s))
    ELSE IF s # <<>> /\ s[Len(s)] = " " THEN strip(SubSeq(s, 1, Len(s) - 1))
    ELSE s

\* int(x): [val] on success, [exc] when it raises.  A str is stripped, may carry
\* one sign and must then be digits; neither None nor a list is accepted.
int(x) ==
    CASE x.t = "int" -> [val |-> x.i]
      [] x.t = "str" ->
            LET body == strip(x.s)
                signed == body # <<>> /\ Head(body) \in {"-", "+"}
                ds == IF signed THEN Tail(body) ELSE body
            IN  IF ds # <<>> /\ \A k \in 1..Len(ds) : ds[k] \in Digits
                THEN [val |-> IF signed /\ Head(body) = "-"
                              THEN 0 - DecimalValue(ds) ELSE DecimalValue(ds)]
                ELSE [exc |-> "ValueError"]
      [] OTHER -> [exc |-> "TypeError"]

\* '--' * n
RECURSIVE DepthMarks(_)
DepthMarks(n) == IF n <= 0 THEN <<>> ELSE <<"-", "-">> \o DepthMarks(n - 1)

\* '{depth_marks} {name}'.format(depth_marks=name_prefix, name=collection.name)
CollectionLabel(collection) ==
    LET name_prefix == IF collection.depth > 1 THEN DepthMarks(collection.depth - 1) ELSE <<>>
    IN  name_prefix \o <<" ">> \o collection.name

\* choices: one (pk, label) per collection, in order
CollectionChoices(collections) ==
    [i \in 1..Len(collections) |-> <<collections[i].pk, CollectionLabel(collections[i])>>]

\* The conversion of selected_collection: [val] is the value put in the context,
\* [exc] the exception that leaves the tag.
NormaliseSelected(selected_collection) ==
    IF selected_collection.t # "NoneType" /\ selected_collection.t # "int"
    THEN LET unwrapped ==
                 IF selected_collection.t # "str" /\ Len(selected_collection.l) = 1
                 THEN selected_collection.l[1]
                 ELSE selected_collection
             converted == int(unwrapped)
         IN  IF "val" \in DOMAIN converted THEN [val |-> PyInt(converted.val)]
             ELSE IF converted.exc = "ValueError" THEN [val |-> unwrapped]
             ELSE [exc |-> converted.exc]
    ELSE [val |-> selected_collection]

\* context.update({...})
ContextUpdate(ctx, d) ==
    [k \in DOMAIN ctx \cup DOMAIN d |-> IF k \in DOMAIN d THEN d[k] ELSE ctx[k]]

collection_chooser(collections, label, selected_collection, show_all_collections, field_name, enable_widget_mode) ==
    LET choices == CollectionChoices(collections)
        selected == NormaliseSelected(selected_collection)
    IN  IF "exc" \in DOMAIN selected
        THEN /\ ret' = [exc |-> selected.exc]
             /\ UNCHANGED context
        ELSE /\ context' = ContextUpdate(context,
                    [collection_choices |-> choices,
                     selected_collection |-> selected.val,
                     label |-> label,
                     show_all_collections |-> show_all_collections,
                     field_name |-> field_name,
                     enable_widget_mode |-> enable_widget_mode])
             /\ ret' = [value |-> "context"]

CollectionChooser ==
    /\ call.tag = "collection_chooser"
    /\ ret = Pending
    /\ collection_chooser(call.collections, "Collection", call.selected_collection,
                          TRUE, "collection_id", FALSE)
    /\ UNCHANGED <<request, store, registry, call, built, invoked>>

Root == <<"R", "o", "o", "t">>
Child == <<"C", "h", "i", "l", "d">>
Grandchild == <<"G", "r", "a", "n", "d", "c", "h", "i", "l", "d">>
RootLabel == Root
ChildLabel == <<"-", "-", " ">> \o Child
GrandchildLabel == <<"-", "-", "-", "-", " ">> \o Grandchild

ChooserCollections ==
    {[pk |-> pk, depth |-> d, name |-> n] :
        pk \in CollectionPks, d \in 1..MaxTreeDepth, n \in {Root, Child}}
FamilyOfThree ==
    <<[pk |-> 1, depth |-> 1, name |-> Root],
      [pk |-> 2, depth |-> 2, name |-> Child],
      [pk |-> 3, depth |-> 3, name |-> Grandchild]>>
ChooserCollectionLists ==
    SeqsOf(ChooserCollections, 0, MaxCollections) \cup {FamilyOfThree}

SelectedChars == {"5", "a", "-", " "}
SelectedScalars ==
    {PyNone, PyInt(5)} \cup {PyStr(s) : s \in SeqsOf(SelectedChars, 0, MaxSelected)}
SelectedElements == {PyNone, PyInt(5), PyStr(<<"5">>), PyStr(<<"a">>)}
SelectedInputs ==
    SelectedScalars \cup {PyList(l) : l \in SeqsOf(SelectedElements, 0, MaxSelected)}

InitChooser ==
    /\ call \in {[tag |-> "collection_chooser", collections |-> cs,
                   selected_collection |-> sel] :
                    cs \in ChooserCollectionLists, sel \in SelectedInputs}
    /\ ret = Pending
    /\ request = Unused
    /\ store = Unused
    /\ registry = Unused
    /\ context = <<>>
    /\ built = Unused
    /\ invoked = <<>>

NextChooser == CollectionChooser

SpecChooser == InitChooser /\ [][NextChooser]_vars

\* An input the claim calls convertible to an integer: an int, a numeric string,
\* or a one-element sequence holding such a value.
Numeric(x) == x.t = "int" \/ (x.t = "str" /\ "val" \in DOMAIN int(x))
Convertible(x) ==
    \/ Numeric(x)
    \/ (x.t = "list" /\ Len(x.l) = 1 /\ Numeric(x.l[1]))
ConvertedValue(x) == IF x.t = "list" THEN int(x.l[1]).val ELSE int(x).val

\* C4: collection_chooser raises for no shape of selected_collection (None, an
\* int, a string, a sequence of any length); a convertible input comes out as
\* that integer, and when the conversion fails the context holds the original
\* input unchanged.
ChooserNormalisesAsClaimed ==
    (call.tag = "collection_chooser" /\ ret # Pending) =>
        LET input == call.selected_collection
        IN  /\ "exc" \notin DOMAIN ret
            /\ Convertible(input) =>
                    context["selected_collection"] = PyInt(ConvertedValue(input))
            /\ ~Convertible(input) => context["selected_collection"] = input

\* The label the claim gives a collection.
ClaimedLabel(collection) ==
    IF collection.depth = 1 THEN collection.name
    ELSE DepthMarks(collection.depth - 1) \o <<" ">> \o collection.name

\* C6: collection_chooser gives one (pk, label) choice per collection, in input
\* order; the label is the name at depth 1 and otherwise "--" repeated
\* (depth - 1) times, a space and the name; Root, Child, Grandchild at depths
\* 1, 2, 3 give "Root", "-- Child", "---- Grandchild".
ChooserLabelsAsClaimed ==
    (call.tag = "collection_chooser" /\ ret # Pending /\ "exc" \notin DOMAIN ret) =>
        LET choices == context["collection_choices"]
            collections == call.collections
        IN  /\ Len(choices) = Len(collections)
            /\ \A i \in 1..Len(collections) :
                    choices[i] = <<collections[i].pk, ClaimedLabel(collections[i])>>
            /\ collections = FamilyOfThree =>
                    choices = <<(<<1, RootLabel>>), (<<2, ChildLabel>>), (<<3, GrandchildLabel>>)>>

---------------------------------------------------------------------------
(* The hook registry *)

\* hooks.get_hooks(hook_name): the callbacks registered under the name, in
\* registration order; none for a name nothing is registered under.
get_hooks(reg, hook_name) == IF hook_name \in DOMAIN reg THEN reg[hook_name] ELSE <<>>

\* The call log after calling every fn of fns in turn with args.
CallEach(fns, args) == [i \in 1..Len(fns) |-> [fn |-> fns[i].fn, args |-> args]]

---------------------------------------------------------------------------
(* hook_output *)

\* ''.join(snippets)
RECURSIVE Join(_)
Join(snippets) == IF snippets = <<>> THEN <<>> ELSE Head(snippets) \o Join(Tail(snippets))

\* Mutant: the snippets are joined last to first.
RECURSIVE JoinReversed(_)
JoinReversed(snippets) ==
    IF snippets = <<>> THEN <<>> ELSE JoinReversed(Tail(snippets)) \o Head(snippets)
HookOutputReversed(reg, hook_name) ==
    LET fns == get_hooks(reg, hook_name)
    IN  [value |-> JoinReversed([i \in 1..Len(fns) |-> fns[i].out]), safe |-> TRUE]

\* mark_safe(''.join([fn() for fn in hooks.get_hooks(hook_name)]))
hook_output(reg, hook_name) ==
    LET fns == get_hooks(reg, hook_name)
        snippets == [i \in 1..Len(fns) |-> fns[i].out]
    IN  [value |-> Join(snippets), safe |-> TRUE]

\* Zero-argument hook functions, each with the string it returns.
SnippetFns ==
    {[fn |-> "css", out |-> <<"a">>],
     [fn |-> "js", out |-> <<"b", "c">>],
     [fn |-> "blank", out |-> <<>>]}
SnippetHookNames == {"insert_editor_css", "insert_editor_js"}

HookOutput ==
    \E hook_name \in SnippetHookNames \cup {"insert_global_admin_css"} :
        /\ call' = [tag |-> "hook_output", hook_name |-> hook_name]
        /\ invoked' = CallEach(get_hooks(registry, hook_name), <<>>)
        /\ ret' = hook_output(registry, hook_name)
        /\ UNCHANGED <<request, store, registry, context, built>>

InitHooks ==
    /\ registry \in [SnippetHookNames -> SeqsOf(SnippetFns, 0, MaxHooks)]
    /\ request = Unused
    /\ store = Unused
    /\ context = <<>>
    /\ call = Pending
    /\ ret = Pending
    /\ built = Unused
    /\ invoked = <<>>

NextHooks == HookOutput

SpecHooks == InitHooks /\ [][NextHooks]_vars

\* The callbacks registered under a name, read from the registry.
Registered(hook_name) ==
    IF hook_name \in DOMAIN registry THEN registry[hook_name] ELSE <<>>

\* Where in the output the i-th callback's string starts (0-based).
RECURSIVE SnippetOffset(_, _)
SnippetOffset(fns, i) == IF i <= 1 THEN 0 ELSE SnippetOffset(fns, i - 1) + Len(fns[i - 1].out)

\* C7: hook_output calls every callback registered under hook_name once, with no
\* argument, and no callback of another name; it returns their strings one after
\* the other in registration order, the empty string when there is none.
HookOutputConcatenatesInOrder ==
    call.tag = "hook_output" =>
        LET fns == Registered(call.hook_name)
        IN  /\ Len(invoked) = Len(fns)
            /\ \A i \in 1..Len(fns) : invoked[i] = [fn |-> fns[i].fn, args |-> <<>>]
            /\ Len(ret.value) = SnippetOffset(fns, Len(fns) + 1)
            /\ \A i \in 1..Len(fns) : \A j \in 1..Len(fns[i].out) :
                    ret.value[SnippetOffset(fns, i) + j] = fns[i].out[j]
            /\ fns = <<>> => ret.value = <<>>
            /\ ret.safe

\* Two callbacks with different strings under the name, another under the other name.
HookOutputOfTwo ==
    /\ call.tag = "hook_output"
    /\ call.hook_name = "insert_editor_css"
    /\ Len(invoked) = 2
    /\ invoked[1].fn = "js"
    /\ invoked[2].fn = "css"
    /\ ret.value = <<"b", "c", "a">>
    /\ registry["insert_editor_js"] # <<>>

---------------------------------------------------------------------------
(* page_listing_buttons, collection_listing_buttons *)

\* Button.__lt__: buttons order by priority.
ButtonLess(a, b) == a.priority < b.priority

\* sorted(): stable, by the records' own "<".
RECURSIVE Insert(_, _)
Insert(sorted, x) ==
    IF sorted = <<>> THEN <<x>>
    ELSE IF ButtonLess(x, Head(sorted)) THEN <<x>> \o sorted
    ELSE <<Head(sorted)>> \o Insert(Tail(sorted), x)
RECURSIVE Sorted(_)
Sorted(s) == IF s = <<>> THEN <<>> ELSE Insert(Sorted(SubSeq(s, 1, Len(s) - 1)), s[Len(s)])

\* What a button hook returns for (entity, perms, is_parent).
HookButtons(hook, entity, perms, is_parent) == IF is_parent THEN hook.parent ELSE hook.child

\* itertools.chain.from_iterable(hook(entity, perms, is_parent) for hook in button_hooks)
RECURSIVE Chain(_, _, _, _)
Chain(button_hooks, entity, perms, is_parent) ==
    IF button_hooks = <<>> THEN <<>>
    ELSE HookButtons(Head(button_hooks), entity, perms, is_parent)
            \o Chain(Tail(button_hooks), entity, perms, is_parent)

\* collection.permissions_for_user(user)
permissions_for_user(collection, user) ==
    [kind |-> "CollectionPermissionTester", user |-> user, collection |-> collection]

\* Mutant: the chained buttons are returned as they come, unsorted.
PageListingButtonsUnsorted(reg, page, page_perms, is_parent) ==
    [page |-> page,
     buttons |-> Chain(get_hooks(reg, "register_page_listing_buttons"),
                       page, page_perms, is_parent)]

page_listing_buttons(reg, page, page_perms, is_parent) ==
    LET button_hooks == get_hooks(reg, "register_page_listing_buttons")
        buttons == Sorted(Chain(button_hooks, page, page_perms, is_parent))
    IN  [page |-> page, buttons |-> buttons]

collection_listing_buttons(reg, user, collection, is_parent) ==
    LET button_hooks == get_hooks(reg, "register_collection_listing_buttons")
        collection_perms == permissions_for_user(collection, user)
        buttons == Sorted(Chain(button_hooks, collection, collection_perms, is_parent))
    IN  [collection |-> collection, buttons |-> buttons]

Button(priority, label) == [priority |-> priority, label |-> label]
\* Button hooks, each with the buttons it returns in a child and in a parent listing.
ButtonFns ==
    {[fn |-> "none", child |-> <<>>, parent |-> <<>>],
     [fn |-> "edit", child |-> <<Button(20, "view"), Button(10, "edit")>>,
                     parent |-> <<Button(10, "edit")>>],
     [fn |-> "more", child |-> <<Button(10, "edit"), Button(30, "more")>>,
                     parent |-> <<Button(30, "more"), Button(10, "add")>>]}
ButtonHookNames == {"register_page_listing_buttons", "register_collection_listing_buttons"}
AllButtons == UNION {{h.child[i] : i \in 1..Len(h.child)} \cup
                     {h.parent[i] : i \in 1..Len(h.parent)} : h \in ButtonFns}
ListedCollections == {[pk |-> pk, name |-> "docs"] : pk \in CollectionPks}

PageListingButtons ==
    \E page \in Pages, is_parent \in BOOLEAN :
        LET page_perms == for_page(UserPagePermissionsProxy(request.user), page)
        IN  /\ call' = [tag |-> "page_listing_buttons", entity |-> page,
                        perms |-> page_perms, is_parent |-> is_parent]
            /\ invoked' = CallEach(get_hooks(registry, "register_page_listing_buttons"),
                                   <<page, page_perms, is_parent>>)
            /\ ret' = page_listing_buttons(registry, page, page_perms, is_parent)
            /\ UNCHANGED <<request, store, registry, context, built>>

CollectionListingButtons ==
    \E collection \in ListedCollections, is_parent \in BOOLEAN :
        LET collection_perms == permissions_for_user(collection, request.user)
        IN  /\ call' = [tag |-> "collection_listing_buttons", entity |-> collection,
                        perms |-> collection_perms, is_parent |-> is_parent]
            /\ invoked' = CallEach(get_hooks(registry, "register_collection_listing_buttons"),
                                   <<collection, collection_perms, is_parent>>)
            /\ ret' = collection_listing_buttons(registry, request.user, collection, is_parent)
            /\ UNCHANGED <<request, store, registry, context, built>>

InitButtons ==
    /\ registry \in [ButtonHookNames -> SeqsOf(ButtonFns, 0, MaxHooks)]
    /\ request \in {[user |-> u] : u \in Users}
    /\ store = Unused
    /\ context = <<>>
    /\ call = Pending
    /\ ret = Pending
    /\ built = Unused
    /\ invoked = <<>>

NextButtons ==
    \/ PageListingButtons
    \/ CollectionListingButtons

SpecButtons == InitButtons /\ [][NextButtons]_vars

\* How often x occurs in the sequence s.
Occurrences(s, x) == Cardinality({i \in 1..Len(s) : s[i] = x})

\* How often the callbacks fns return button x for the call.
RECURSIVE Returned(_, _, _)
Returned(fns, is_parent, x) ==
    IF fns = <<>> THEN 0
    ELSE Occurrences(IF is_parent THEN Head(fns).parent ELSE Head(fns).child, x)
            + Returned(Tail(fns), is_parent, x)

\* C8: the listing-button tags call every callback registered under their hook
\* name once with (entity, permission tester, is_parent); 'buttons' holds every
\* record the callbacks returned as often as it was returned, nothing else, in
\* non-decreasing order of priority.
ListingButtonsSortedPermutation ==
    call.tag \in {"page_listing_buttons", "collection_listing_buttons"} =>
        LET fns == Registered(IF call.tag = "page_listing_buttons"
                              THEN "register_page_listing_buttons"
                              ELSE "register_collection_listing_buttons")
            buttons == ret.buttons
        IN  /\ Len(invoked) = Len(fns)
            /\ \A i \in 1..Len(fns) :
                    invoked[i] = [fn |-> fns[i].fn,
                                  args |-> <<call.entity, call.perms, call.is_parent>>]
            /\ call.perms.user = request.user
            /\ \A i \in 1..Len(buttons) : buttons[i] \in AllButtons
            /\ \A x \in AllButtons :
                    Occurrences(buttons, x) = Returned(fns, call.is_parent, x)
            /\ \A i \in 1..Len(buttons) : \A j \in i..Len(buttons) :
                    buttons[i].priority <= buttons[j].priority

\* Two callbacks whose chained buttons arrive out of order and with a duplicate.
ListingButtonsReordered ==
    /\ call.tag = "page_listing_buttons"
    /\ ~call.is_parent
    /\ Len(invoked) = 2
    /\ invoked[1].fn = "edit"
    /\ invoked[2].fn = "more"
    /\ ret.buttons = <<Button(10, "edit"), Button(10, "edit"),
                       Button(20, "view"), Button(30, "more")>>

---------------------------------------------------------------------------
(* explorer_breadcrumb, collection_breadcrumb *)

TreePaths == SeqsOf(Steps, 1, MaxTreeDepth)
TreeNodes == {[path |-> p] : p \in TreePaths}

\* get_explorable_root_page(user), get_explorable_root_collection(user): the
\* closest common ancestor of what the user may explore, None when there is none.
get_explorable_root_page(st, user) == st.explorable_root_page[user]
get_explorable_root_collection(st, user) == st.explorable_root_collection[user]

\* node.get_ancestors(inclusive): the nodes above node (and node itself when
\* inclusive), from the root of its tree downwards.
get_ancestors(node, inclusive) ==
    [i \in 1..(IF inclusive THEN Len(node.path) ELSE Len(node.path) - 1) |->
        [path |-> SubSeq(node.path, 1, i)]]

\* queryset.descendant_of(other, inclusive): the nodes of the queryset below
\* other (and other itself when inclusive), in the queryset's order.
descendant_of(queryset, other, inclusive) ==
    LET Below(n) == /\ startswith(n.path, other.path)
                    /\ (inclusive \/ n.path # other.path)
    IN  SelectSeq(queryset, Below)

\* Mutant: the ancestors are not cut at the explorable root.
ExplorerBreadcrumbUncut(st, user, page, include_self) ==
    IF get_explorable_root_page(st, user) = PyNone THEN [pages |-> <<>>]
    ELSE [pages |-> get_ancestors(page, include_self)]

explorer_breadcrumb(st, user, page, include_self) ==
    LET cca == get_explorable_root_page(st, user)
    IN  IF cca = PyNone THEN [pages |-> <<>>]
        ELSE [pages |-> descendant_of(get_ancestors(page, include_self), cca, TRUE)]

collection_breadcrumb(st, user, collection, include_self) ==
    LET cca == get_explorable_root_collection(st, user)
    IN  IF cca = PyNone THEN [collections |-> <<>>]
        ELSE [collections |->
                descendant_of(get_ancestors(collection, include_self), cca, TRUE)]

ExplorerBreadcrumb ==
    \E page \in TreeNodes, include_self \in BOOLEAN :
        /\ call' = [tag |-> "explorer_breadcrumb", entity |-> page,
                    include_self |-> include_self]
        /\ ret' = [crumbs |-> explorer_breadcrumb(store, request.user, page, include_self).pages]
        /\ UNCHANGED <<request, store, registry, context, built, invoked>>

CollectionBreadcrumb ==
    \E collection \in TreeNodes, include_self \in BOOLEAN :
        /\ call' = [tag |-> "collection_breadcrumb", entity |-> collection,
                    include_self |-> include_self]
        /\ ret' = [crumbs |-> collection_breadcrumb(store, request.user, collection,
                                                    include_self).collections]
        /\ UNCHANGED <<request, store, registry, context, built, invoked>>

\* The stores of the breadcrumb tags: each tag reads its own explorable root
\* only, so the stores vary one root with the other held at None.
CrumbStores(user) ==
    {[explorable_root_page |-> [u \in {user} |-> rp],
      explorable_root_collection |-> [u \in {user} |-> PyNone]] :
        rp \in TreeNodes \cup {PyNone}}
    \cup
    {[explorable_root_page |-> [u \in {user} |-> PyNone],
      explorable_root_collection |-> [u \in {user} |-> rc]] :
        rc \in TreeNodes}

InitCrumbs ==
    /\ request \in {[user |-> u] : u \in Users}
    /\ store \in CrumbStores(request.user)
    /\ registry = Unused
    /\ context = <<>>
    /\ call = Pending
    /\ ret = Pending
    /\ built = Unused
    /\ invoked = <<>>

NextCrumbs ==
    \/ ExplorerBreadcrumb
    \/ CollectionBreadcrumb

SpecCrumbs == InitCrumbs /\ [][NextCrumbs]_vars

\* The explorable root the tag of the last call looked up.
RootOfCall ==
    IF call.tag = "explorer_breadcrumb" THEN store.explorable_root_page[request.user]
    ELSE store.explorable_root_collection[request.user]

\* C9: the breadcrumb tags return nothing when the user has no explorable root;
\* otherwise exactly the ancestors of the entity (the entity itself only with
\* include_self) that are the explorable root or below it, each above the next,
\* so that no node above the explorable root appears.
BreadcrumbBelowExplorableRoot ==
    call.tag \in {"explorer_breadcrumb", "collection_breadcrumb"} =>
        LET root == RootOfCall
            crumbs == ret.crumbs
            entity == call.entity
        IN  /\ root = PyNone => crumbs = <<>>
            /\ root # PyNone =>
                /\ \A n \in TreeNodes :
                        (\E i \in 1..Len(crumbs) : crumbs[i] = n) <=>
                            /\ IsPrefixOf(n.path, entity.path)
                            /\ (n # entity \/ call.include_self)
                            /\ IsPrefixOf(root.path, n.path)
                /\ \A i \in 1..Len(crumbs) : \A j \in 1..Len(crumbs) :
                        i < j => /\ IsPrefixOf(crumbs[i].path, crumbs[j].path)
                                 /\ crumbs[i] # crumbs[j]
                /\ \A i \in 1..Len(crumbs) :
                        ~(IsPrefixOf(crumbs[i].path, root.path) /\ crumbs[i] # root)

\* A breadcrumb that starts at an explorable root lying below the top of the tree.
BreadcrumbCutAtRoot ==
    /\ call.tag = "explorer_breadcrumb"
    /\ RootOfCall # PyNone
    /\ Len(RootOfCall.path) = 2
    /\ Len(call.entity.path) = 3
    /\ call.include_self
    /\ ret.crumbs = <<RootOfCall, call.entity>>

---------------------------------------------------------------------------
(* querystring, pagination_querystring *)

\* A QueryDict is the sequence of its entries [key, values] in insertion order,
\* each key once.  A query string is kept as its "key=value" pairs.
QueryKeys == {"p", "q"}
DEFAULT_PAGE_KEY == "p"

DigitChars == <<"0", "1", "2", "3", "4", "5", "6", "7", "8", "9">>
\* str(i), i >= 0
RECURSIVE IntStr(_)
IntStr(i) == IF i < 10 THEN <<DigitChars[i + 1]>> ELSE IntStr(i \div 10) \o <<DigitChars[(i % 10) + 1]>>
\* str(value) of an int or a str
Str(value) == IF value.t = "int" THEN IntStr(value.i) ELSE value.s

HasKey(querydict, key) == \E i \in 1..Len(querydict) : querydict[i].key = key

\* querydict.pop(key, None)
QueryDictPop(querydict, key) ==
    LET Other(e) == e.key # key
    IN  SelectSeq(querydict, Other)

\* querydict[key] = value: the key's values become [value]
QueryDictSet(querydict, key, value) ==
    IF HasKey(querydict, key)
    THEN [i \in 1..Len(querydict) |->
            IF querydict[i].key = key THEN [key |-> key, values |-> <<value>>]
            ELSE querydict[i]]
    ELSE Append(querydict, [key |-> key, values |-> <<value>>])

\* Mutant: QueryDict.update(), which appends to the key's values.
QueryDictAppend(querydict, key, value) ==
    IF HasKey(querydict, key)
    THEN [i \in 1..Len(querydict) |->
            IF querydict[i].key = key
            THEN [key |-> key, values |-> Append(querydict[i].values, value)]
            ELSE querydict[i]]
    ELSE Append(querydict, [key |-> key, values |-> <<value>>])

\* querydict.urlencode(): one pair per value, keys in the dict's order
RECURSIVE urlencode(_)
urlencode(querydict) ==
    IF querydict = <<>> THEN <<>>
    ELSE LET e == Head(querydict)
         IN  [i \in 1..Len(e.values) |-> <<e.key, Str(e.values[i])>>]
                \o urlencode(Tail(querydict))

\* The loop over kwargs.items()
RECURSIVE ApplyKwargs(_, _)
ApplyKwargs(querydict, kwargs) ==
    IF kwargs = <<>> THEN querydict
    ELSE LET key == Head(kwargs)[1]
             value == Head(kwargs)[2]
         IN  ApplyKwargs(IF value = PyNone THEN QueryDictPop(querydict, key)
                         ELSE QueryDictSet(querydict, key, value),
                         Tail(kwargs))

\* Mutant: the loop works on request.GET itself, not on a copy.
QuerystringInPlace(GET, kwargs) ==
    LET querydict == ApplyKwargs(GET, kwargs)
    IN  [prefix |-> "?", pairs |-> urlencode(querydict), GET |-> querydict]

\* querystring(context, **kwargs): what it returns and request.GET afterwards
querystring(GET, kwargs) ==
    LET querydict == ApplyKwargs(GET, kwargs)
    IN  [prefix |-> "?", pairs |-> urlencode(querydict), GET |-> GET]

pagination_querystring(GET, page_number, page_key) ==
    querystring(GET, <<(<<page_key, page_number>>)>>)

QueryValues == {PyStr(<<"1">>), PyStr(<<"7">>)}
KwargValues == {PyNone, PyInt(2), PyStr(<<"7">>)}
DistinctKeys(entries, KeyOf(_)) ==
    \A i \in 1..Len(entries) : \A j \in 1..Len(entries) :
        i # j => KeyOf(entries[i]) # KeyOf(entries[j])
EntryKey(e) == e.key
PairKey(kv) == kv[1]
QueryDicts ==
    {qd \in SeqsOf({[key |-> k, values |-> vs] :
                        k \in QueryKeys, vs \in SeqsOf(QueryValues, 1, MaxValues)},
                   0, Cardinality(QueryKeys)) : DistinctKeys(qd, EntryKey)}
Kwargs ==
    {kw \in SeqsOf(QueryKeys \X KwargValues, 0, MaxKwargs) : DistinctKeys(kw, PairKey)}

Querystring ==
    \E kwargs \in Kwargs :
        LET r == querystring(request.GET, kwargs)
        IN  /\ call' = [tag |-> "querystring", kwargs |-> kwargs, GET |-> request.GET]
            /\ ret' = [prefix |-> r.prefix, pairs |-> r.pairs]
            /\ request' = [request EXCEPT !.GET = r.GET]
            /\ UNCHANGED <<store, registry, context, built, invoked>>

PaginationQuerystring ==
    \E page_number \in 1..MaxPage, page_key \in {DEFAULT_PAGE_KEY} \cup QueryKeys :
        LET r == pagination_querystring(request.GET, PyInt(page_number), page_key)
        IN  /\ call' = [tag |-> "pagination_querystring",
                        kwargs |-> <<(<<page_key, PyInt(page_number)>>)>>,
                        GET |-> request.GET]
            /\ ret' = [prefix |-> r.prefix, pairs |-> r.pairs]
            /\ request' = [request EXCEPT !.GET = r.GET]
            /\ UNCHANGED <<store, registry, context, built, invoked>>

InitQuery ==
    /\ request \in {[user |-> "alice", GET |-> qd] : qd \in QueryDicts}
    /\ store = Unused
    /\ registry = Unused
    /\ context = <<>>
    /\ call = Pending
    /\ ret = Pending
    /\ built = Unused
    /\ invoked = <<>>

NextQuery ==
    \/ Querystring
    \/ PaginationQuerystring

SpecQuery == InitQuery /\ [][NextQuery]_vars

\* The values the pairs give to key, in order.
PairValues(pairs, key) ==
    LET OfKey(kv) == kv[1] = key
        hits == SelectSeq(pairs, OfKey)
    IN  [i \in 1..Len(hits) |-> hits[i][2]]

\* The values the QueryDict gives to key, as strings, in order.
DictValues(querydict, key) ==
    LET OfKey(e) == e.key = key
        hits == SelectSeq(querydict, OfKey)
    IN  IF hits = <<>> THEN <<>>
        ELSE [i \in 1..Len(hits[1].values) |-> Str(hits[1].values[i])]

\* C10: querystring builds its result from a copy of the request's query
\* parameters: a keyword given as None is absent from the result, a keyword
\* given a value carries exactly that one value, every other key keeps its
\* values, and the request's own parameters are as they were before the call.
QuerystringReplacesOnACopy ==
    call.tag \in {"querystring", "pagination_querystring"} =>
        LET kwargs == call.kwargs
            named == {kwargs[i][1] : i \in 1..Len(kwargs)}
        IN  /\ request.GET = call.GET
            /\ ret.prefix = "?"
            /\ \A i \in 1..Len(kwargs) :
                    PairValues(ret.pairs, kwargs[i][1]) =
                        IF kwargs[i][2] = PyNone THEN <<>> ELSE <<Str(kwargs[i][2])>>
            /\ \A k \in QueryKeys \ named :
                    PairValues(ret.pairs, k) = DictValues(call.GET, k)
            /\ \A i \in 1..Len(ret.pairs) : ret.pairs[i][1] \in QueryKeys

\* A key with two values replaced by one, another removed.
QuerystringReplacedAndRemoved ==
    /\ call.tag = "querystring"
    /\ Len(DictValues(call.GET, "p")) = 2
    /\ HasKey(call.GET, "q")
    /\ call.kwargs = <<(<<"q", PyNone>>), (<<"p", PyInt(2)>>)>>
    /\ ret.pairs = <<(<<"p", <<"2">> >>)>>

====
